---------------------------- MODULE Spec2Model ----------------------------
(***************************************************************************)
(* kruda: the parallel filter executor.                                    *)
(*                                                                         *)
(* N filter workers (FilterWorker's onmessage handler, one FilterProcessor *)
(* per worker) scan a shared source table in batches claimed with an      *)
(* atomic fetch-add on a shared u32 cursor, and append the matching rows   *)
(* to a shared result table whose row count grows by atomic fetch-add.     *)
(***************************************************************************)
EXTENDS Integers, Sequences, FiniteSets, TLC

(***************************************************************************)
(* Bounds of the model.                                                    *)
(***************************************************************************)
NumWorkers == 2
MaxRows == 3
MaxScans == 2

Workers == 1..NumWorkers

(***************************************************************************)
(* Build configuration: jscc's _DEBUG value.  With _DEBUG false the bounds *)
(* check of getRow/getBinaryRow is commented out of the build.             *)
(***************************************************************************)
DEBUG == FALSE

(***************************************************************************)
(* u32 words.  The cursor lives in a Uint32Array, so fetch-add wraps at    *)
(* 2^32.  A word is the pair <<hi, lo>> of its 16-bit halves.              *)
(***************************************************************************)
U16 == 65536

U32(hi, lo) == <<hi, lo>>

U32Add(a, b) ==
    LET lo == a[2] + b[2]
        hi == a[1] + b[1] + (lo \div U16)
    IN  <<hi % U16, lo % U16>>

\* a < n for a word a and a small natural n (n < 2^16)
U32Less(a, n) == a[1] = 0 /\ a[2] < n

Min(a, b) == IF a <= b THEN a ELSE b

(***************************************************************************)
(* State.                                                                  *)
(***************************************************************************)
VARIABLES
    request,      \* the options of the processFilters messages of this run
    srcRowCount,  \* header rowCount of source table "A"
    srcData,      \* source table rows: index -> (column -> value)
    cursor,       \* indices[0], a u32 in shared memory
    resRowCount,  \* header rowCount of the result table "R"
    resData,      \* result table rows: slot -> (column -> value), as far as written
    resSize,      \* region.size of the result table, in bytes
    freed,        \* the regions free() was called on
    gProcessor,   \* per worker: "null", or the mTable of its FilterProcessor
    pc,           \* per worker: where its handler stands
    loc,          \* per worker: process()'s locals i, n, r, resultRow.index, writer index
    last,         \* per worker: the message it took last and the reply it posted to it
    scans,        \* per worker: the number of scan loops it has entered
    call,         \* a direct call of a Table or tester function: arguments and outcome
    constructed,  \* history: per worker, the number of FilterProcessors constructed
    claimed,      \* history: source row index -> number of claims that covered it
    tested,       \* history: source row index -> number of times filterTester ran on it
    written,      \* history: source row index -> number of resultWriter calls for it
    slotLog       \* history: the old counts returned by addRows on the result table

vars == <<request, srcRowCount, srcData, cursor, resRowCount, resData, resSize, freed,
          gProcessor, pc, loc, last, scans, call, constructed, claimed, tested, written,
          slotLog>>

shared == <<cursor, resRowCount, resData>>
source == <<srcRowCount, srcData>>
fixed == <<resSize, freed, call>>
history == <<constructed, claimed, tested, written, slotLog>>

(***************************************************************************)
(* The source table "A"; its row count is chosen initially.  Schema and    *)
(* rows as in the spec's scenario S1: id (Uint32), name (ByteString), and  *)
(* row r holds id = r + 1 and the r-th of the names Ada, Bob, Cid.  The    *)
(* result table is "R".                                                    *)
(***************************************************************************)
Tables == {"A"}

ColumnType == [id |-> "Uint32", name |-> "ByteString"]

SourceColumns == DOMAIN ColumnType

Names == << <<"A","d","a">>, <<"B","o","b">>, <<"C","i","d">> >>

\* the rows the coordinator wrote to the source table
InitialRows ==
    [r \in 0..(MaxRows - 1) |-> [id |-> r + 1, name |-> Names[(r % 3) + 1]]]

\* getter of column col with the row cursor at index r of table t; memory past the
\* rows ever written reads as zero bytes
Getter(t, col, r) ==
    IF r \in DOMAIN srcData /\ col \in DOMAIN srcData[r]
    THEN srcData[r][col]
    ELSE IF ColumnType[col] = "Uint32" THEN 0 ELSE <<>>

\* columns of the result table: id (Uint32) and the empty-named row index column
ResultColumns == {"id", ""}

\* layout of the result table: rowLength is the sum of its two u32 columns, dataLength
\* the length of its header
ResultRowLength == 8
ResultDataLength == 64

\* region.size of a result table with room for `rows` rows
RegionSize(rows) == ResultDataLength + rows * ResultRowLength

(***************************************************************************)
(* ByteString: case-insensitive equality and containment.                  *)
(***************************************************************************)
Fold(ch) ==
    CASE ch = "A" -> "a"
      [] ch = "B" -> "b"
      [] ch = "C" -> "c"
      [] ch = "D" -> "d"
      [] OTHER -> ch

FoldStr(s) == [k \in 1..Len(s) |-> Fold(s[k])]

equalsCase(s, v) == FoldStr(s) = FoldStr(v)

containsCase(s, v) ==
    \E k \in 0..(Len(s) - Len(v)) :
        FoldStr(SubSeq(s, k + 1, k + Len(v))) = FoldStr(v)

(***************************************************************************)
(* parseFloat on the strings the rules carry: the longest prefix of        *)
(* decimal digits, NaN when there is none.                                 *)
(***************************************************************************)
Digits == <<"0","1","2","3","4","5","6","7","8","9">>

IsDigit(ch) == \E d \in 1..10 : Digits[d] = ch

DigitVal(ch) == (CHOOSE d \in 1..10 : Digits[d] = ch) - 1

RECURSIVE ParseDigits(_, _, _)
ParseDigits(s, k, acc) ==
    IF k > Len(s) \/ ~IsDigit(s[k]) THEN acc
    ELSE ParseDigits(s, k + 1, acc * 10 + DigitVal(s[k]))

NaN == [nan |-> TRUE, v |-> 0]

parseFloat(s) ==
    IF Len(s) = 0 \/ ~IsDigit(s[1]) THEN NaN
    ELSE [nan |-> FALSE, v |-> ParseDigits(s, 1, 0)]


(***************************************************************************)
(* FilterProcessor: compilation of the tester.  A tester evaluated on a    *)
(* row yields "true", "false" or "throw" (a TypeError raised at row time). *)
(***************************************************************************)
FilterOperation ==
    {"contains", "notContains", "in", "notIn", "equal", "notEqual",
     "greaterThan", "greaterThanOrEqual", "lessThan", "lessThanOrEqual"}

Bool(b) == IF b THEN "true" ELSE "false"

\* row.accessors[row.names[rule.field]].getter throws when the field names no column
RuleCompiles(rule) == rule.field \in SourceColumns

\* the switch of _generateRuleTester falls to default and returns null
RuleIsNull(rule) == rule.operation \notin FilterOperation

\* getter() as a number for the comparisons; a ByteString compares as NaN
NumGetter(t, rule, r) ==
    IF ColumnType[rule.field] = "ByteString" THEN NaN
    ELSE [nan |-> FALSE, v |-> Getter(t, rule.field, r)]

StrictEq(x, y) == ~x.nan /\ ~y.nan /\ x.v = y.v
Greater(x, y) == ~x.nan /\ ~y.nan /\ x.v > y.v
Less(x, y) == ~x.nan /\ ~y.nan /\ x.v < y.v

\* one comparison of filterIn / filterNotIn: toTest.equalsCase(values[i]) on a text
\* column, toTest === values[i] on a number, with values[i] = parseFloat(v)
InCompare(text, x, nx, v) ==
    IF text THEN equalsCase(x, v) ELSE StrictEq(nx, parseFloat(v))

\* variant: filterIn comparing with the first value only
filterInFirstValue(text, x, nx, values, i) ==
    IF i > Len(values) THEN "false" ELSE Bool(InCompare(text, x, nx, values[i]))

\* for (i = 0; i < n; ++i) if (toTest equals values[i]) return true;  return false;
RECURSIVE filterIn(_, _, _, _, _)
filterIn(text, x, nx, values, i) ==
    IF i > Len(values) THEN "false"
    ELSE IF InCompare(text, x, nx, values[i]) THEN "true"
    ELSE filterIn(text, x, nx, values, i + 1)

\* for (i = 0; i < n; ++i) if (toTest equals values[i]) return false;  return true;
RECURSIVE filterNotIn(_, _, _, _, _)
filterNotIn(text, x, nx, values, i) ==
    IF i > Len(values) THEN "true"
    ELSE IF InCompare(text, x, nx, values[i]) THEN "false"
    ELSE filterNotIn(text, x, nx, values, i + 1)

\* the closure _generateRuleTester returns, called with the row cursor on row r of table t
RuleTester(t, rule, r) ==
    LET op == rule.operation
        text == ColumnType[rule.field] = "ByteString"
        x == Getter(t, rule.field, r)
        nx == NumGetter(t, rule, r)
    IN  IF RuleIsNull(rule) THEN "throw"    \* testers[i] is null: not a function
        ELSE
        CASE op = "contains" ->
               IF text THEN Bool(containsCase(x, rule.value)) ELSE "throw"
          [] op = "notContains" ->
               IF text THEN Bool(~containsCase(x, rule.value)) ELSE "throw"
          [] op = "in" -> filterIn(text, x, nx, rule.value, 1)
          [] op = "notIn" -> filterNotIn(text, x, nx, rule.value, 1)
          [] op = "equal" ->
               IF text THEN Bool(equalsCase(x, rule.value))
               ELSE Bool(StrictEq(nx, parseFloat(rule.value)))
          [] op = "notEqual" ->
               IF text THEN Bool(~equalsCase(x, rule.value))
               ELSE Bool(~StrictEq(nx, parseFloat(rule.value)))
          [] op = "greaterThan" -> Bool(Greater(nx, parseFloat(rule.value)))
          [] op = "greaterThanOrEqual" ->
               Bool(Greater(nx, parseFloat(rule.value)) \/ StrictEq(nx, parseFloat(rule.value)))
          [] op = "lessThan" -> Bool(Less(nx, parseFloat(rule.value)))
          [] op = "lessThanOrEqual" ->
               Bool(Less(nx, parseFloat(rule.value)) \/ StrictEq(nx, parseFloat(rule.value)))

\* for (i...) if (!testers[i]()) return false;  return true;
RECURSIVE ruleTesterDNF(_, _, _, _)
ruleTesterDNF(t, clause, r, k) ==
    IF k > Len(clause) THEN "true"
    ELSE LET v == RuleTester(t, clause[k], r)
         IN  IF v = "true" THEN ruleTesterDNF(t, clause, r, k + 1) ELSE v

\* variant: the clause aggregator of CNF mode requiring all rules, as in DNF mode
ruleTesterCNFAllRules(t, clause, r, k) == ruleTesterDNF(t, clause, r, k)

\* for (i...) if (testers[i]()) return true;  return false;
RECURSIVE ruleTesterCNF(_, _, _, _)
ruleTesterCNF(t, clause, r, k) ==
    IF k > Len(clause) THEN "false"
    ELSE LET v == RuleTester(t, clause[k], r)
         IN  IF v = "false" THEN ruleTesterCNF(t, clause, r, k + 1) ELSE v

IsDNF(mode) == mode \in {"DNF", "disjunctiveNormalForm"}

\* the closure _generateClauseTester returns
ClauseTester(t, clause, mode, r) ==
    IF IsDNF(mode) THEN ruleTesterDNF(t, clause, r, 1) ELSE ruleTesterCNF(t, clause, r, 1)

\* for (i...) if (testers[i]()) return true;  return false;
RECURSIVE filterTesterDNF(_, _, _, _, _)
filterTesterDNF(t, expression, mode, r, k) ==
    IF k > Len(expression) THEN "false"
    ELSE LET v == ClauseTester(t, expression[k], mode, r)
         IN  IF v = "false" THEN filterTesterDNF(t, expression, mode, r, k + 1) ELSE v

\* for (i...) if (!testers[i]()) return false;  return true;
RECURSIVE filterTesterCNF(_, _, _, _, _)
filterTesterCNF(t, expression, mode, r, k) ==
    IF k > Len(expression) THEN "true"
    ELSE LET v == ClauseTester(t, expression[k], mode, r)
         IN  IF v = "true" THEN filterTesterCNF(t, expression, mode, r, k + 1) ELSE v

\* variant: no tester for the empty expression, the loops run over no clause
filterTesterNoEmpty(t, expression, mode, r) ==
    IF IsDNF(mode) THEN filterTesterDNF(t, expression, mode, r, 1)
    ELSE filterTesterCNF(t, expression, mode, r, 1)

\* the closure _generateExpressionTester returns
filterTester(t, expression, mode, r) ==
    IF Len(expression) = 0 THEN "true"
    ELSE IF IsDNF(mode) THEN filterTesterDNF(t, expression, mode, r, 1)
    ELSE filterTesterCNF(t, expression, mode, r, 1)

\* _generateExpressionTester returns without throwing
ExpressionCompiles(expression) ==
    \A c \in 1..Len(expression) :
        \A k \in 1..Len(expression[c]) : RuleCompiles(expression[c][k])

\* !index as a number: 1 for index 0, else 0
NotIndex(index) == IF index = 0 THEN 1 ELSE 0

\* Table.getRow / getBinaryRow in a build with _DEBUG = debug: the check
\* `!index >= this.rowCount` is compiled in only when debug is true
GetRowCheck(debug, index, rowCount) ==
    debug /\ NotIndex(index) >= rowCount

\* Table.getRow / getBinaryRow of this build throw
GetRowThrows(index, rowCount) == GetRowCheck(DEBUG, index, rowCount)

\* _generateResultWriter returns without throwing; an absent `as` is ""
WriterCompiles(description) ==
    \A k \in 1..Len(description) :
        IF description[k].as # ""
        THEN description[k].column \in SourceColumns /\ description[k].as \in ResultColumns
        ELSE "" \in ResultColumns


(***************************************************************************)
(* The requests a coordinator broadcasts with processFilters.              *)
(***************************************************************************)
Rule(f, op, v) == [field |-> f, operation |-> op, value |-> v]

Entry(c, a) == [column |-> c, as |-> a]

\* S2: DNF [[id = 1], [name contains "c"]]
RulesS2 == << <<Rule("id", "equal", <<"1">>)>>, <<Rule("name", "contains", <<"c">>)>> >>

\* S3: CNF [[id > 1], [name notContains "b"]]
RulesS3 == << <<Rule("id", "greaterThan", <<"1">>)>>, <<Rule("name", "notContains", <<"b">>)>> >>

\* a rule on a column the source table does not have
RulesNoColumn == << <<Rule("zip", "equal", <<"1">>)>> >>

\* a rule with an operation FilterOperation does not have, reached on the row id = 1 only
RulesNoOperation ==
    << <<Rule("id", "equal", <<"2">>)>>,
       <<Rule("id", "equal", <<"1">>), Rule("id", "between", <<"1">>)>> >>

\* S6: copy id, then the source row index into the empty-named column
DescriptionS6 == <<Entry("id", "id"), Entry("", "")>>

BatchSizes == {U32(0, 1), U32(0, 2), U32(32768, 0)}

Request(rules, mode, description, batch) ==
    [rules |-> rules, mode |-> mode, resultDescription |-> description,
     resultTable |-> "R", rowBatchSize |-> batch]

\* a request whose options carry no rules
RequestNoRules(mode, description, batch) ==
    [mode |-> mode, resultDescription |-> description,
     resultTable |-> "R", rowBatchSize |-> batch]

\* config.rules; absent (undefined) and empty both compile to filterTesterEmpty
ConfigRules(config) == IF "rules" \in DOMAIN config THEN config.rules ELSE <<>>

\* variant: the writer bound to the processor's own table
ResultTableIsSource(config) == "A"

\* deserializeTable(config.resultTable)
ResultTable(config) == config.resultTable

GoodRequests ==
    {Request(e[1], e[2], DescriptionS6, b) :
        e \in {<< <<>>, "DNF" >>, <<RulesS2, "DNF">>, <<RulesS3, "CNF">>},
        b \in BatchSizes}

BadRequests ==
    {Request(RulesNoColumn, "DNF", DescriptionS6, U32(0, 2)),
     Request(RulesNoOperation, "DNF", DescriptionS6, U32(0, 2)),
     Request(<<>>, "DNF", <<Entry("zip", "id")>>, U32(0, 2)),
     Request(<<>>, "DNF", <<Entry("id", "zip")>>, U32(0, 2))}

Requests == GoodRequests \cup BadRequests

\* no rules at all, one rule true on every row (ids start at 1), one rule false on
\* every row; in both modes
IdentityRequests ==
    {RequestNoRules(m, DescriptionS6, U32(0, 2)) : m \in {"DNF", "CNF"}}
    \cup {Request(e, m, DescriptionS6, U32(0, 2)) :
            e \in {<<>>,
                    << <<Rule("id", "greaterThan", <<"0">>)>> >>,
                    << <<Rule("id", "equal", <<"0">>)>> >>},
            m \in {"DNF", "CNF"}}

RowIndices == 0..(MaxRows - 1)

\* this.mTable.rowCount
RowCount(t) == srcRowCount

NoMessage == [type |-> "none", table |-> "-", reply |-> "none", reason |-> ""]

NoLocals == [i |-> 0, n |-> 0, r |-> 0, resultRow |-> 0, w |-> 0]

\* no function has been called directly
NoCall == [fn |-> "none"]

\* rows of a result region the coordinator sized for every scan of the run
Roomy == MaxRows * (MaxScans + 1)

\* the coordinator has built the source table and an empty result table in a region
\* of one of the given sizes, and will broadcast one of the given requests
Start(requests, sizes) ==
    /\ request \in requests
    /\ srcRowCount \in 0..MaxRows
    /\ srcData = InitialRows
    /\ cursor = U32(0, 0)
    /\ resRowCount = 0
    /\ resData = <<>>
    /\ resSize \in sizes
    /\ freed = {}
    /\ call = NoCall
    /\ gProcessor = [w \in Workers |-> "null"]
    /\ pc = [w \in Workers |-> "idle"]
    /\ loc = [w \in Workers |-> NoLocals]
    /\ last = [w \in Workers |-> NoMessage]
    /\ scans = [w \in Workers |-> 0]
    /\ constructed = [w \in Workers |-> 0]
    /\ claimed = [r \in RowIndices |-> 0]
    /\ tested = [r \in RowIndices |-> 0]
    /\ written = [r \in RowIndices |-> 0]
    /\ slotLog = <<>>

Init == Start(Requests, {RegionSize(Roomy)})


(***************************************************************************)
(* Shared memory primitives.                                               *)
(***************************************************************************)
\* Atomize.add(indices, 0, value): atomic fetch-add on the u32 cursor
AtomizeAdd(word, value) == [old |-> word, new |-> U32Add(word, value)]

\* Header.addRows(count): atomic fetch-add on the header's rowCount
HeaderAddRows(rowCount, count) == [old |-> rowCount, new |-> rowCount + count]

\* variant: addRows returning the new count instead of the old one
TableAddRowsNewCount(rowCount, count) ==
    [old |-> rowCount + count, new |-> rowCount + count]

\* variant: addRows growing the table by one row more than asked
TableAddRowsOneMore(rowCount, count) == HeaderAddRows(rowCount, count + 1)

\* Table.addRows(count = 1): return this.mHeader.addRows(count)
TableAddRows(rowCount, count) == HeaderAddRows(rowCount, count)

\* setter(value) of column col with the result row cursor at slot
Store(mem, slot, col, value) ==
    [s \in DOMAIN mem \cup {slot} |->
        [c \in (IF s \in DOMAIN mem THEN DOMAIN mem[s] ELSE {})
                 \cup (IF s = slot THEN {col} ELSE {}) |->
            IF s = slot /\ c = col THEN value ELSE mem[s][c]]]

\* history counters: one more for every index of S
Bump(f, S) ==
    [x \in DOMAIN f \cup S |->
        (IF x \in DOMAIN f THEN f[x] ELSE 0) + (IF x \in S THEN 1 ELSE 0)]

(***************************************************************************)
(* FilterWorker: the onmessage handler.  A handler runs to completion      *)
(* before the worker takes its next message; an exception that leaves the  *)
(* handler is uncaught and posts nothing.                                  *)
(***************************************************************************)
Handled(type, table, reply, reason) ==
    [type |-> type, table |-> table, reply |-> reply, reason |-> reason]

RECURSIVE SumTo(_, _)
SumTo(f, k) == IF k = 0 THEN 0 ELSE f[k] + SumTo(f, k - 1)

\* the scan loops entered so far, by all workers
TotalScans == SumTo(scans, NumWorkers)

\* the worker is between two messages
Ready(w) == pc[w] = "idle"

\* a FilterProcessor after fetchMemory(): its mTable and mRow are null
NoTable == "no table"

\* variant: initialize without the check for an existing processor
InitializeCaseReplaces(g, t) ==
    [gProcessor |-> t, new |-> 1, reply |-> "success", reason |-> ""]

\* case 'initialize': what the handler does with gProcessor = g and options.table = t
InitializeCase(g, t) ==
    IF g # "null"
    THEN [gProcessor |-> g, new |-> 0, reply |-> "error", reason |-> "already initialized"]
    ELSE IF GetRowThrows(0, RowCount(t))         \* constructor: getBinaryRow(0)
    THEN [gProcessor |-> g, new |-> 0, reply |-> "none", reason |-> "uncaught"]
    ELSE [gProcessor |-> t, new |-> 1, reply |-> "success", reason |-> ""]

Initialize(w, t) ==
    /\ Ready(w)
    /\ LET out == InitializeCase(gProcessor[w], t)
       IN  /\ gProcessor' = [gProcessor EXCEPT ![w] = out.gProcessor]
           /\ constructed' = [constructed EXCEPT ![w] = @ + out.new]
           /\ last' = [last EXCEPT ![w] = Handled("initialize", t, out.reply, out.reason)]
    /\ UNCHANGED <<request, source, shared, fixed, pc, loc, scans, claimed, tested,
                   written, slotLog>>

\* variant: processFilters without the check for a processor
ProcessFiltersCaseUnchecked(g, config) ==
    IF ~ExpressionCompiles(ConfigRules(config)) THEN "throw"
    ELSE IF ~WriterCompiles(config.resultDescription) THEN "throw"
    ELSE "scan"

\* variant: process() not reading this.mTable.rowCount of a processor without table
ProcessFiltersCaseNoRowCount(g, config) ==
    IF g = "null" THEN "error"
    ELSE IF ~ExpressionCompiles(ConfigRules(config)) THEN "throw"
    ELSE IF ~WriterCompiles(config.resultDescription) THEN "throw"
    ELSE "scan"

\* case 'processFilters', up to the scan loop: "error" when there is no processor,
\* "throw" when this.mTable is null or compiling the tester or the writer throws,
\* else "scan"
ProcessFiltersCase(g, config) ==
    IF g = "null" THEN "error"
    ELSE IF g = NoTable THEN "throw"              \* this.mTable.rowCount
    ELSE IF ~ExpressionCompiles(ConfigRules(config)) THEN "throw"
    ELSE IF GetRowThrows(0, resRowCount) THEN "throw"
    ELSE IF ~WriterCompiles(config.resultDescription) THEN "throw"
    ELSE "scan"

ProcessFilters(w) ==
    /\ Ready(w)
    /\ LET out == ProcessFiltersCase(gProcessor[w], request)
       IN  /\ out = "scan" => TotalScans < MaxScans
           /\ pc' = [pc EXCEPT ![w] = IF out = "scan" THEN "fetch" ELSE "idle"]
           /\ scans' = [scans EXCEPT ![w] = IF out = "scan" THEN @ + 1 ELSE @]
           /\ last' = [last EXCEPT ![w] =
                        IF out = "error"
                        THEN Handled("processFilters", "-", "error", "not initialized")
                        ELSE IF out = "throw"
                        THEN Handled("processFilters", "-", "none", "uncaught")
                        ELSE Handled("processFilters", "-", "none", "")]
    /\ UNCHANGED <<request, source, shared, fixed, gProcessor, loc, history>>

\* variant: the default case dropping the processor
DefaultCaseResets(g) ==
    [gProcessor |-> "null", reply |-> "error", reason |-> "unrecognized"]

\* default: sendError, for a message of a type the switch does not know
DefaultCase(g) ==
    [gProcessor |-> g, reply |-> "error", reason |-> "unrecognized"]

Unrecognized(w) ==
    /\ Ready(w)
    /\ LET out == DefaultCase(gProcessor[w])
       IN  /\ gProcessor' = [gProcessor EXCEPT ![w] = out.gProcessor]
           /\ last' = [last EXCEPT ![w] = Handled("bogus", "-", out.reply, out.reason)]
    /\ UNCHANGED <<request, source, shared, fixed, pc, loc, scans, history>>

(***************************************************************************)
(* FilterProcessor.process: the scan loop.                                 *)
(***************************************************************************)
\* variant: the loop left one row early
LoopConditionEarly(i, rowCount) == U32Less(U32Add(i, U32(0, 1)), rowCount)

\* variant: the loop entered once more, with the cursor at rowCount
LoopConditionAtMost(i, rowCount) == U32Less(i, rowCount + 1)

\* i < rowCount
LoopCondition(i, rowCount) == U32Less(i, rowCount)

\* variant: the batch end one row too far, into the next claim
BatchEndOneMore(i, batchSize, rowCount) ==
    IF batchSize[1] > 0 THEN rowCount ELSE Min(i + batchSize[2] + 1, rowCount)

\* variant: the batch end without the clamp to rowCount
BatchEndUnclamped(i, batchSize, rowCount) ==
    IF batchSize[1] > 0 THEN rowCount ELSE i + batchSize[2]

\* n = Math.min(i + batchSize, rowCount), for a claim start i < rowCount
BatchEnd(i, batchSize, rowCount) ==
    IF batchSize[1] > 0 THEN rowCount ELSE Min(i + batchSize[2], rowCount)

\* the message being handled gets its reply ("uncaught": the handler was left by a throw)
Replied(w, reply, reason) ==
    [last EXCEPT ![w].reply = reply, ![w].reason = reason]

\* i = Atomize.add(indices, 0, batchSize); then the loop test
Fetch(w) ==
    /\ pc[w] = "fetch"
    /\ LET fa == AtomizeAdd(cursor, request.rowBatchSize)
           rowCount == RowCount(gProcessor[w])
       IN  /\ cursor' = fa.new
           /\ IF LoopCondition(fa.old, rowCount)
              THEN LET i == fa.old[2]
                       n == BatchEnd(i, request.rowBatchSize, rowCount)
                   IN  /\ loc' = [loc EXCEPT ![w].i = i, ![w].n = n, ![w].r = i]
                       /\ pc' = [pc EXCEPT ![w] = IF i < n THEN "test" ELSE "fetch"]
                       /\ claimed' = Bump(claimed, i..(n - 1))
                       /\ last' = last
              ELSE \* process() returns; sendSuccess()
                   /\ loc' = [loc EXCEPT ![w] = NoLocals]
                   /\ pc' = [pc EXCEPT ![w] = "idle"]
                   /\ claimed' = claimed
                   /\ last' = Replied(w, "success", "")
    /\ UNCHANGED <<request, source, resRowCount, resData, fixed, gProcessor, scans,
                   constructed, tested, written, slotLog>>

\* variant: the loop stepping over a row
NextRowSkips(w, l) ==
    /\ loc' = [loc EXCEPT ![w] = [l EXCEPT !.r = l.r + 2]]
    /\ pc' = [pc EXCEPT ![w] = IF l.r + 2 < l.n THEN "test" ELSE "fetch"]

\* ++r; r < n; else back to the fetch-add
NextRow(w, l) ==
    /\ loc' = [loc EXCEPT ![w] = [l EXCEPT !.r = l.r + 1]]
    /\ pc' = [pc EXCEPT ![w] = IF l.r + 1 < l.n THEN "test" ELSE "fetch"]

\* row.index = r; if (filterTester()) ...
Test(w) ==
    /\ pc[w] = "test"
    /\ LET v == filterTester(gProcessor[w], ConfigRules(request), request.mode, loc[w].r)
       IN  /\ tested' = Bump(tested, {loc[w].r})
           /\ CASE v = "true" ->
                    /\ pc' = [pc EXCEPT ![w] = "add"]
                    /\ loc' = loc
                [] v = "false" -> NextRow(w, loc[w])
                [] OTHER -> \* the TypeError leaves process() and the handler
                    /\ pc' = [pc EXCEPT ![w] = "idle"]
                    /\ loc' = [loc EXCEPT ![w] = NoLocals]
    /\ last' = IF pc'[w] = "idle" THEN Replied(w, "none", "uncaught") ELSE last
    /\ UNCHANGED <<request, source, shared, fixed, gProcessor, scans, constructed,
                   claimed, written, slotLog>>

\* resultWriter(r): resultRow.index = resultTable.addRows(1)
AddRows(w) ==
    /\ pc[w] = "add"
    /\ LET t == ResultTable(request)
           ar == TableAddRows(IF t = "R" THEN resRowCount ELSE srcRowCount, 1)
           l == [loc[w] EXCEPT !.resultRow = ar.old, !.w = 1]
       IN  /\ resRowCount' = (IF t = "R" THEN ar.new ELSE resRowCount)
           /\ srcRowCount' = (IF t = "R" THEN srcRowCount ELSE ar.new)
           /\ slotLog' = Append(slotLog, ar.old)
           /\ written' = Bump(written, {loc[w].r})
           /\ IF Len(request.resultDescription) = 0
              THEN NextRow(w, l)
              ELSE /\ loc' = [loc EXCEPT ![w] = l]
                   /\ pc' = [pc EXCEPT ![w] = "write"]
    /\ UNCHANGED <<request, srcData, cursor, resData, fixed, gProcessor, last, scans,
                   constructed, claimed, tested>>

\* variant: the field writers reading the first row of the batch's table
FieldValueFirstRow(t, d, r) == IF d.as # "" THEN Getter(t, d.column, 0) ELSE r

\* what writers[i](index) stores: resultWriterField the getter's value of the live
\* source row, resultWriterRowIndex the index
FieldValue(t, d, r) == IF d.as # "" THEN Getter(t, d.column, r) ELSE r

\* writers[i](index): resultWriterField or resultWriterRowIndex
WriteField(w) ==
    /\ pc[w] = "write"
    /\ LET l == loc[w]
           t == ResultTable(request)
           d == request.resultDescription[l.w]
           col == d.as
           value == FieldValue(gProcessor[w], d, l.r)
       IN  /\ resData' = (IF t = "R" THEN Store(resData, l.resultRow, col, value) ELSE resData)
           /\ srcData' = (IF t = "R" THEN srcData ELSE Store(srcData, l.resultRow, col, value))
           /\ IF l.w < Len(request.resultDescription)
              THEN /\ loc' = [loc EXCEPT ![w].w = l.w + 1]
                   /\ pc' = pc
              ELSE NextRow(w, l)
    /\ UNCHANGED <<request, srcRowCount, cursor, resRowCount, fixed, gProcessor, last,
                   scans, history>>

Next ==
    \E w \in Workers :
        \/ \E t \in Tables : Initialize(w, t)
        \/ ProcessFilters(w)
        \/ Unrecognized(w)
        \/ Fetch(w)
        \/ Test(w)
        \/ AddRows(w)
        \/ WriteField(w)

Spec == Init /\ [][Next]_vars

(***************************************************************************)
(* FilterProcessor.fetchMemory, called on a worker's processor between two  *)
(* messages (at teardown); no message of the worker protocol calls it.      *)
(***************************************************************************)
\* table.memory.buffer: the buffer under the region of table t
Buffer(t) == <<"buffer", t>>

\* Table.destroy(): this.mMemory.free()
TableDestroy(regions, t) == regions \cup {t}

\* variant: fetchMemory destroying the table it gives up
FetchMemoryCaseDestroys(g) ==
    IF g = NoTable
    THEN [gProcessor |-> g, buffer |-> <<"TypeError", "null">>, freed |-> {}]
    ELSE [gProcessor |-> NoTable, buffer |-> Buffer(g), freed |-> TableDestroy({}, g)]

\* fetchMemory() on a processor whose mTable is g: the buffer returned, the processor
\* afterwards, the regions freed; this.mTable.memory throws when mTable is null
FetchMemoryCase(g) ==
    IF g = NoTable
    THEN [gProcessor |-> g, buffer |-> <<"TypeError", "null">>, freed |-> {}]
    ELSE [gProcessor |-> NoTable, buffer |-> Buffer(g), freed |-> {}]

FetchMemory(w) ==
    /\ Ready(w)
    /\ gProcessor[w] # "null"
    /\ LET out == FetchMemoryCase(gProcessor[w])
       IN  /\ gProcessor' = [gProcessor EXCEPT ![w] = out.gProcessor]
           /\ freed' = freed \cup out.freed
           /\ call' = [fn |-> "fetchMemory", worker |-> w, out |-> out.buffer]
    /\ UNCHANGED <<request, source, shared, resSize, pc, loc, last, scans, history>>

NextTeardown ==
    \/ Next
    \/ \E w \in Workers : FetchMemory(w)

TeardownRequests == {Request(RulesS2, "DNF", DescriptionS6, U32(0, 2))}

\* the worker protocol, with fetchMemory called on the processors at any time between
\* two messages
InitTeardown == Start(TeardownRequests, {RegionSize(Roomy)})

SpecTeardown == InitTeardown /\ [][NextTeardown]_vars

\* requests that select all rows or some of them, in small batches or in one batch
CapacityRequests ==
    {Request(<<>>, "DNF", DescriptionS6, U32(0, 1)),
     Request(RulesS2, "DNF", DescriptionS6, U32(0, 2)),
     Request(<<>>, "DNF", DescriptionS6, U32(32768, 0))}

\* scans into a result region with room for one row, or for every row of a full
\* source table
InitCapacity == Start(CapacityRequests, {RegionSize(1), RegionSize(MaxRows)})

SpecCapacity == InitCapacity /\ [][Next]_vars

\* scans of the requests without rules or with a single rule
InitIdentity == Start(IdentityRequests, {RegionSize(Roomy)})

SpecIdentity == InitIdentity /\ [][Next]_vars

(***************************************************************************)
(* Direct calls of the compiled tester: _generateExpressionTester on an    *)
(* expression and a mode, then the tester on one row of the full source    *)
(* table.                                                                  *)
(***************************************************************************)
MaxTerms == 3

\* rules on the columns of the source table: an equality on a number, a containment on
\* a text and an ordering comparison, each true on some rows and false on others; an
\* ordering comparison with a value parseFloat turns into NaN; a containment on a number
RulePool ==
    {Rule("id", "equal", <<"1">>),
     Rule("name", "contains", <<"c">>),
     Rule("id", "greaterThan", <<"1">>),
     Rule("id", "greaterThan", <<"x">>),
     Rule("id", "contains", <<"1">>)}

RECURSIVE RuleCount(_, _)
RuleCount(expression, k) ==
    IF k = 0 THEN 0 ELSE Len(expression[k]) + RuleCount(expression, k - 1)

\* everything but `call` at rest: a source table, no worker initialized
AtRest ==
    /\ request = Request(<<>>, "DNF", DescriptionS6, U32(0, 1))
    /\ srcRowCount \in 0..MaxRows
    /\ srcData = InitialRows
    /\ cursor = U32(0, 0)
    /\ resRowCount = 0
    /\ resData = <<>>
    /\ resSize = RegionSize(Roomy)
    /\ freed = {}
    /\ gProcessor = [w \in Workers |-> "null"]
    /\ pc = [w \in Workers |-> "idle"]
    /\ loc = [w \in Workers |-> NoLocals]
    /\ last = [w \in Workers |-> NoMessage]
    /\ scans = [w \in Workers |-> 0]
    /\ constructed = [w \in Workers |-> 0]
    /\ claimed = [r \in RowIndices |-> 0]
    /\ tested = [r \in RowIndices |-> 0]
    /\ written = [r \in RowIndices |-> 0]
    /\ slotLog = <<>>

rest == <<request, source, shared, resSize, freed, gProcessor, pc, loc, last, scans,
          history>>

InitTester ==
    /\ AtRest
    /\ srcRowCount = MaxRows
    /\ call = [fn |-> "filterTester", expression |-> <<>>, mode |-> "none", row |-> 0,
               out |-> "none"]

\* the caller writes the expression: one more clause
AddClause ==
    /\ call.fn = "filterTester"
    /\ call.out = "none"
    /\ Len(call.expression) < MaxTerms
    /\ call' = [call EXCEPT !.expression = Append(@, <<>>)]
    /\ UNCHANGED rest

\* the caller writes the expression: one more rule in its last clause
AddRule(rule) ==
    /\ call.fn = "filterTester"
    /\ call.out = "none"
    /\ Len(call.expression) > 0
    /\ RuleCount(call.expression, Len(call.expression)) < MaxTerms
    /\ call' = [call EXCEPT !.expression[Len(call.expression)] = Append(@, rule)]
    /\ UNCHANGED rest

\* _generateExpressionTester(expression, mode, row); row.index = r; filterTester()
CallTester(mode, r) ==
    /\ call.fn = "filterTester"
    /\ call.out = "none"
    /\ call' = [call EXCEPT !.mode = mode, !.row = r,
                             !.out = filterTester("A", call.expression, mode, r)]
    /\ UNCHANGED rest

NextTester ==
    \/ AddClause
    \/ \E rule \in RulePool : AddRule(rule)
    \/ \E mode \in {"DNF", "CNF"}, r \in 0..(srcRowCount - 1) : CallTester(mode, r)

SpecTester == InitTester /\ [][NextTester]_vars

(***************************************************************************)
(* Direct calls of Table.getRow and Table.getBinaryRow on the source       *)
(* table, in a debug and in a release build.                               *)
(***************************************************************************)
InitGetRow ==
    /\ AtRest
    /\ call = NoCall

\* table.getRow(index, row) or table.getBinaryRow(index, row) in a build with
\* _DEBUG = debug; `reuse` tells whether a row (positioned at 0) is passed in
CallGetRow(fn, debug, index, reuse) ==
    /\ call = NoCall
    /\ LET threw == GetRowCheck(debug, index, srcRowCount)
       IN  call' = [fn |-> fn, debug |-> debug, index |-> index, reuse |-> reuse,
                    kind |-> (IF reuse THEN "passed in"
                              ELSE IF fn = "getBinaryRow" THEN "binary" ELSE "string"),
                    threw |-> threw,
                    rowIndex |-> (IF threw THEN -1 ELSE index)]   \* row.index = index
    /\ UNCHANGED rest

NextGetRow ==
    \E fn \in {"getRow", "getBinaryRow"}, debug \in BOOLEAN,
       index \in 0..(MaxRows + 1), reuse \in BOOLEAN :
        CallGetRow(fn, debug, index, reuse)

SpecGetRow == InitGetRow /\ [][NextGetRow]_vars

(***************************************************************************)
(* A Table instance over the source region "A", used directly: forEach,     *)
(* the iterator, the getters, addRows and destroy.  `call` holds the        *)
(* instance (mMemory, mHeader), the last operation with its outcome, what   *)
(* the last forEach passed to its callback, one iterator of the table, and  *)
(* the number of times free() ran on the region.                            *)
(***************************************************************************)
Undefined == "undefined"
TypeError == "TypeError"

\* Header.length of the source table
SourceHeaderLength == 64

\* what a callback or a consumer receives: the Row object, positioned at index
Visit(row, index) == [row |-> row, index |-> index]

\* forEach has not run, or failed before it called back
NoForEach == [returned |-> FALSE, n |-> 0, visits |-> <<>>]

\* no iterator has been created
NoIterator == [made |-> FALSE, i |-> 0, n |-> 0, yielded |-> <<>>, done |-> FALSE]

\* the worker side, which takes no step while the table is used directly
workerSide == <<request, shared, resSize, gProcessor, pc, loc, last, scans, history>>

\* new Table(memory): this.mMemory = memory; this.mHeader = new Header(memory)
InitTable ==
    /\ AtRest
    /\ call = [fn |-> "new Table", out |-> "ok", value |-> 0,
               mMemory |-> "A", mHeader |-> "header", frees |-> 0,
               each |-> NoForEach, it |-> NoIterator]

\* the instance lost its references (delete this.mMemory; delete this.mHeader)
Destroyed(tb) == tb.mMemory = Undefined /\ tb.mHeader = Undefined

\* variant: destroy freeing the region and keeping its references
TableDestroyCaseKeeps(tb) ==
    IF tb.mMemory = Undefined
    THEN [mMemory |-> tb.mMemory, mHeader |-> tb.mHeader, free |-> 0, out |-> TypeError]
    ELSE [mMemory |-> tb.mMemory, mHeader |-> tb.mHeader, free |-> 1, out |-> "ok"]

\* Table.destroy(): this.mMemory.free() throws a TypeError on a missing mMemory;
\* otherwise the region is freed and both references are deleted
TableDestroyCase(tb) ==
    IF tb.mMemory = Undefined
    THEN [mMemory |-> tb.mMemory, mHeader |-> tb.mHeader, free |-> 0, out |-> TypeError]
    ELSE [mMemory |-> Undefined, mHeader |-> Undefined, free |-> 1, out |-> "ok"]

\* get rowCount(): this.mHeader.rowCount
TableRowCount(tb, rowCount) ==
    IF tb.mHeader = Undefined THEN [out |-> TypeError, value |-> 0]
    ELSE [out |-> "ok", value |-> rowCount]

\* get dataOffset(): this.mHeader.length
TableDataOffset(tb) ==
    IF tb.mHeader = Undefined THEN [out |-> TypeError, value |-> 0]
    ELSE [out |-> "ok", value |-> SourceHeaderLength]

\* addRows(count) on the instance: this.mHeader.addRows(count)
TableAddRowsCase(tb, rowCount, count) ==
    IF tb.mHeader = Undefined
    THEN [out |-> TypeError, value |-> 0, rowCount |-> rowCount]
    ELSE LET add == TableAddRows(rowCount, count)
         IN  [out |-> "ok", value |-> add.old, rowCount |-> add.new]

\* new Row(table, 0) builds its accessors from the table's header columns
NewRow(tb) == IF tb.mHeader = Undefined THEN TypeError ELSE "row"

\* Table.forEach(itr): const row = new Row(this, 0); itr(row, 0); then for
\* (i = 1, n = this.rowCount; i < n; ++i) { row.index = i; itr(row, i) }
TableForEach(tb, rowCount) ==
    IF NewRow(tb) = TypeError
    THEN [out |-> TypeError, each |-> NoForEach]
    ELSE [out |-> "ok",
          each |-> [returned |-> TRUE, n |-> rowCount,
                    visits |-> <<Visit(NewRow(tb), 0)>>
                               \o [k \in 1..(rowCount - 1) |-> Visit(NewRow(tb), k)]]]

\* Table[Symbol.iterator](): { i: 0, n: this.rowCount, row: new Row(this, 0), next }
TableIterator(tb, rowCount) ==
    IF TableRowCount(tb, rowCount).out = TypeError
    THEN [out |-> TypeError, it |-> NoIterator]
    ELSE [out |-> "ok",
          it |-> [made |-> TRUE, i |-> 0, n |-> rowCount, yielded |-> <<>>,
                  done |-> FALSE]]

\* next() of the iterator: if (this.i < this.n) { this.row.index = this.i++; return
\* { value: this.row, done: false } } return { value: undefined, done: true }
IteratorNext(it) ==
    IF it.i < it.n
    THEN [it EXCEPT !.i = it.i + 1, !.yielded = Append(@, Visit("row", it.i))]
    ELSE [it EXCEPT !.done = TRUE]

CallDestroy ==
    /\ LET d == TableDestroyCase(call)
       IN  /\ call' = [call EXCEPT !.fn = "destroy", !.out = d.out, !.value = 0,
                                   !.mMemory = d.mMemory, !.mHeader = d.mHeader,
                                   !.frees = Min(@ + d.free, 2)]
           /\ freed' = IF d.free = 1 THEN TableDestroy(freed, "A") ELSE freed
    /\ UNCHANGED <<source, workerSide>>

CallRowCount ==
    /\ LET g == TableRowCount(call, srcRowCount)
       IN  call' = [call EXCEPT !.fn = "rowCount", !.out = g.out, !.value = g.value]
    /\ UNCHANGED <<source, freed, workerSide>>

CallDataOffset ==
    /\ LET g == TableDataOffset(call)
       IN  call' = [call EXCEPT !.fn = "dataOffset", !.out = g.out, !.value = g.value]
    /\ UNCHANGED <<source, freed, workerSide>>

CallAddRows(count) ==
    /\ srcRowCount + count <= MaxRows
    /\ LET a == TableAddRowsCase(call, srcRowCount, count)
       IN  /\ call' = [call EXCEPT !.fn = "addRows", !.out = a.out, !.value = a.value]
           /\ srcRowCount' = a.rowCount
    /\ UNCHANGED <<srcData, freed, workerSide>>

CallForEach ==
    /\ LET f == TableForEach(call, srcRowCount)
       IN  call' = [call EXCEPT !.fn = "forEach", !.out = f.out, !.value = 0,
                                !.each = f.each]
    /\ UNCHANGED <<source, freed, workerSide>>

CallIterator ==
    /\ LET c == TableIterator(call, srcRowCount)
       IN  call' = [call EXCEPT !.fn = "iterator", !.out = c.out, !.value = 0,
                                !.it = c.it]
    /\ UNCHANGED <<source, freed, workerSide>>

CallNext ==
    /\ call.it.made
    /\ call' = [call EXCEPT !.fn = "next", !.out = "ok", !.value = 0,
                            !.it = IteratorNext(@)]
    /\ UNCHANGED <<source, freed, workerSide>>

NextTable ==
    \/ CallDestroy
    \/ CallRowCount
    \/ CallDataOffset
    \/ \E count \in 1..2 : CallAddRows(count)
    \/ CallForEach
    \/ CallIterator
    \/ CallNext

SpecTable == InitTable /\ [][NextTable]_vars

(***************************************************************************)
(* The `in` and `notIn` rules, compiled directly on a value list the caller *)
(* writes and called on a row of the source table.                          *)
(***************************************************************************)
\* values for the lists: ids of rows, an id of no row, a name in another case than
\* the table has it, and a name of no row
ValuePool == {<<"1">>, <<"3">>, <<"9">>, <<"a", "D", "A">>, <<"z">>}

InitIn ==
    /\ AtRest
    /\ srcRowCount = MaxRows
    /\ call = [fn |-> "in", field |-> "id", value |-> <<>>, row |-> 0,
               isIn |-> "none", notIn |-> "none"]

\* the caller writes the list: one more value
AddValue(v) ==
    /\ call.isIn = "none"
    /\ Len(call.value) < MaxTerms
    /\ call' = [call EXCEPT !.value = Append(@, v)]
    /\ UNCHANGED rest

\* _generateRuleTester for { field, in, value } and for { field, notIn, value };
\* row.index = r; both testers are called
CallIn(field, r) ==
    /\ call.isIn = "none"
    /\ call' = [call EXCEPT !.field = field, !.row = r,
                             !.isIn = RuleTester("A", Rule(field, "in", call.value), r),
                             !.notIn = RuleTester("A", Rule(field, "notIn", call.value), r)]
    /\ UNCHANGED rest

NextIn ==
    \/ \E v \in ValuePool : AddValue(v)
    \/ \E field \in SourceColumns, r \in 0..(srcRowCount - 1) : CallIn(field, r)

SpecIn == InitIn /\ [][NextIn]_vars



(***************************************************************************)
(* Vocabulary of the properties.                                           *)
(***************************************************************************)
\* the compiled tester is true on source row r
Matches(r) == filterTester("A", ConfigRules(request), request.mode, r) = "true"

MatchingRows == {r \in 0..(srcRowCount - 1) : Matches(r)}

InLoop(w) == pc[w] \in {"test", "add", "write"}

Scanning(w) == pc[w] # "idle"

\* the rows of the claim worker w holds
Held(w) == IF InLoop(w) THEN loc[w].i..(loc[w].n - 1) ELSE {}

\* worker w ran one scan, which ended with the success reply, and took no message since
SucceededOnce(w) ==
    /\ scans[w] = 1
    /\ pc[w] = "idle"
    /\ last[w].type = "processFilters"
    /\ last[w].reply = "success"

AllSucceededOnce == \A w \in Workers : SucceededOnce(w)

\* ceil(rowCount / batchSize)
Batches(batchSize, rowCount) ==
    IF batchSize[1] > 0 THEN (IF rowCount > 0 THEN 1 ELSE 0)
    ELSE (rowCount + batchSize[2] - 1) \div batchSize[2]

\* k * batchSize < 2^32, by k additions that do not carry out of the word
RECURSIVE TimesFits(_, _, _)
TimesFits(acc, batchSize, k) ==
    IF k = 0 THEN TRUE
    ELSE /\ acc[1] + batchSize[1] + ((acc[2] + batchSize[2]) \div U16) < U16
         /\ TimesFits(U32Add(acc, batchSize), batchSize, k - 1)

\* no fetch-add of the scans entered so far returns a wrapped cursor:
\* batchSize * (ceil(rowCount / batchSize) + scans - 1) < 2^32
NoWrap ==
    \/ TotalScans = 0
    \/ TimesFits(U32(0, 0), request.rowBatchSize,
                 Batches(request.rowBatchSize, srcRowCount) + TotalScans - 1)

\* the result slots that hold source row index r in the empty-named column
SlotsOf(r) ==
    {s \in DOMAIN resData : "" \in DOMAIN resData[s] /\ resData[s][""] = r}


(***************************************************************************)
(* C1.  Result of a scan.                                                  *)
(***************************************************************************)
HasIndexEntry ==
    \E k \in 1..Len(request.resultDescription) : request.resultDescription[k].as = ""

\* the rows written are the matching rows, each once, and rowCount counts them
ResultIsMatchingRows ==
    /\ \A r \in DOMAIN written : written[r] = (IF r \in MatchingRows THEN 1 ELSE 0)
    /\ resRowCount = Cardinality(MatchingRows)
    /\ HasIndexEntry =>
         /\ \A r \in MatchingRows : Cardinality(SlotsOf(r)) = 1
         /\ \A s \in DOMAIN resData : "" \in DOMAIN resData[s] => resData[s][""] \in MatchingRows

\* C1 as stated: from cursor 0 and an empty result table, once every worker has
\* finished its scan, the rows written are exactly the matching rows, each once, and
\* the result rowCount is their number, for any number of workers and any batch size.
C1_Original == AllSucceededOnce => ResultIsMatchingRows

\* C1 amended: the same, provided the cursor does not wrap at 2^32, that is
\* batchSize * (ceil(rowCount / batchSize) + N - 1) < 2^32 for the N workers.
C1_ScanResult == (AllSucceededOnce /\ NoWrap) => ResultIsMatchingRows

\* witness: all workers finished a scan over a full table with a partial last batch
\* and matching and non-matching rows
C1_Witness ==
    /\ AllSucceededOnce
    /\ NoWrap
    /\ srcRowCount = MaxRows
    /\ request.rowBatchSize = U32(0, 2)
    /\ MatchingRows # {}
    /\ MatchingRows # 0..(srcRowCount - 1)
    /\ resRowCount = Cardinality(MatchingRows)


(***************************************************************************)
(* C2.  Atomic growth of the result table.                                 *)
(***************************************************************************)
\* C2: the old counts addRows returns to the result writers are pairwise distinct
\* and strictly increasing, the slots [old, old + 1) they claim partition
\* [0, rowCount) of the result table, and no two workers have their result row on
\* the same slot.
C2_AtomicGrowth ==
    /\ \A a, b \in 1..Len(slotLog) : a < b => slotLog[a] < slotLog[b]
    /\ {slotLog[k] : k \in 1..Len(slotLog)} = 0..(resRowCount - 1)
    /\ Len(slotLog) = resRowCount
    /\ \A w1, w2 \in Workers :
         (w1 # w2 /\ pc[w1] = "write" /\ pc[w2] = "write")
            => loc[w1].resultRow # loc[w2].resultRow
    /\ \A w \in Workers : pc[w] = "write" => loc[w].resultRow < resRowCount

\* witness: two workers are writing their rows at the same time
C2_Witness ==
    /\ pc[1] = "write"
    /\ pc[2] = "write"
    /\ Len(slotLog) >= 2
    /\ loc[1].resultRow # loc[2].resultRow

(***************************************************************************)
(* C3.  Claims on the source rows.                                         *)
(***************************************************************************)
SomeoneSucceeded ==
    \E w \in Workers :
        pc[w] = "idle" /\ last[w].type = "processFilters" /\ last[w].reply = "success"

ClaimsPartition ==
    \* no row is held by two workers, nor claimed or tested twice
    /\ \A w1, w2 \in Workers : w1 # w2 => Held(w1) \cap Held(w2) = {}
    /\ \A r \in DOMAIN claimed : claimed[r] <= 1
    /\ \A r \in DOMAIN tested : tested[r] <= 1
    \* a worker tests rows of its own claim, and claims lie in [0, rowCount)
    /\ \A w \in Workers : InLoop(w) => loc[w].r \in Held(w)
    /\ \A r \in DOMAIN claimed : claimed[r] > 0 => r < srcRowCount
    /\ \A r \in DOMAIN tested : tested[r] > 0 => (r \in DOMAIN claimed /\ claimed[r] > 0)
    \* a worker has left the loop: every row is claimed; all have: every row is tested
    /\ SomeoneSucceeded => \A r \in 0..(srcRowCount - 1) : claimed[r] = 1
    /\ AllSucceededOnce => \A r \in 0..(srcRowCount - 1) : tested[r] = 1

\* C3 as stated: with the cursor starting at 0 and every worker scanning once, the
\* claims of all fetch-adds are pairwise disjoint and cover [0, rowCount): no row is
\* ever held by two workers, and at the end every row was tested exactly once, by the
\* worker that claimed it.
C3_Original == (\A w \in Workers : scans[w] <= 1) => ClaimsPartition

\* C3 amended: the same, provided no fetch-add returns a wrapped cursor, that is
\* batchSize * (ceil(rowCount / batchSize) + S - 1) < 2^32 for the S scans entered.
C3_ClaimsPartition == NoWrap => ClaimsPartition

\* witness: two workers hold different non-empty claims at the same time
C3_Witness ==
    /\ InLoop(1)
    /\ InLoop(2)
    /\ Held(1) # {}
    /\ Held(2) # {}
    /\ Held(1) \cap Held(2) = {}
    /\ NoWrap


(***************************************************************************)
(* C4.  How a worker leaves the scan loop.                                 *)
(***************************************************************************)
\* C4 as stated: a worker leaves its scan loop exactly at a fetch-add that returns
\* a start index i >= rowCount.
C4_Original ==
    [][\A w \in Workers :
          (Scanning(w) /\ pc'[w] = "idle")
             => (pc[w] = "fetch" /\ ~LoopCondition(cursor, RowCount(gProcessor[w])))]_vars

\* a worker's handler, once entered, runs its steps until it returns or throws
SpecFair ==
    Spec /\ \A w \in Workers : WF_vars(Fetch(w) \/ Test(w) \/ AddRows(w) \/ WriteField(w))

\* the scan of every worker ends, for every rowCount >= 0 and rowBatchSize > 0
ScanTerminates == \A w \in Workers : Scanning(w) ~> ~Scanning(w)

(***************************************************************************)
(* C5.  The success reply and what it tells the coordinator.               *)
(***************************************************************************)
\* result slot s holds every described field of source row r
RowWritten(s, r) ==
    /\ s \in DOMAIN resData
    /\ \A k \in 1..Len(request.resultDescription) :
         LET d == request.resultDescription[k]
         IN  /\ d.as \in DOMAIN resData[s]
             /\ resData[s][d.as] = (IF d.as # "" THEN Getter("A", d.column, r) ELSE r)

AllTestedAndWritten ==
    \A r \in 0..(srcRowCount - 1) :
        /\ tested[r] >= 1
        /\ Matches(r) => \E s \in 0..(resRowCount - 1) : RowWritten(s, r)

\* worker w posts the success reply to a processFilters message in this step
SuccessPosted(w) ==
    /\ last'[w] # last[w]
    /\ last'[w].type = "processFilters"
    /\ last'[w].reply = "success"

\* C5: a worker posts success to processFilters only in the step that leaves its scan
\* loop, and takes no other message while it scans; so when every worker has replied
\* success, every source row was tested and every matching row is in the result table
\* with all its described fields.
C5_SuccessAfterScan ==
    /\ [](AllSucceededOnce => AllTestedAndWritten)
    /\ [][\A w \in Workers :
            /\ SuccessPosted(w) =>
                 /\ pc[w] = "fetch"
                 /\ pc'[w] = "idle"
                 /\ ~LoopCondition(cursor, RowCount(gProcessor[w]))
            /\ Scanning(w) => last'[w].type = "processFilters"]_vars

\* witness: all workers replied success after a scan of a full table in batches of one
C5_Witness ==
    /\ AllSucceededOnce
    /\ srcRowCount = MaxRows
    /\ request.rowBatchSize = U32(0, 1)
    /\ Cardinality(MatchingRows) >= 2
    /\ AllTestedAndWritten

(***************************************************************************)
(* C6.  initialize on an initialized worker.                               *)
(***************************************************************************)
InitializeTaken(w) == last'[w] # last[w] /\ last'[w].type = "initialize"

\* C6: an initialize taken by an initialized worker is answered with error and leaves
\* the processor in place; a worker constructs at most one processor and never goes
\* back to having none.
C6_InitializeOnce ==
    /\ [](\A w \in Workers :
            /\ constructed[w] <= 1
            /\ gProcessor[w] # "null" <=> constructed[w] = 1)
    /\ [][\A w \in Workers :
            gProcessor[w] # "null" =>
               /\ gProcessor'[w] = gProcessor[w]
               /\ constructed'[w] = constructed[w]
               /\ InitializeTaken(w) =>
                    (last'[w].reply = "error" /\ last'[w].reason = "already initialized")]_vars

\* witness: an initialized worker has answered a second initialize with error
C6_Witness ==
    /\ gProcessor[1] = "A"
    /\ constructed[1] = 1
    /\ last[1].type = "initialize"
    /\ last[1].reply = "error"

(***************************************************************************)
(* C7.  processFilters on a worker that is not initialized.                *)
(***************************************************************************)
ProcessFiltersTaken(w) ==
    pc[w] = "idle" /\ last'[w] # last[w] /\ last'[w].type = "processFilters"

\* C7: a processFilters taken by a worker without a processor is answered with error
\* and runs no scan: cursor, result table and worker state are as before.
C7_NotInitialized ==
    [][\A w \in Workers :
          (gProcessor[w] = "null" /\ ProcessFiltersTaken(w)) =>
             /\ last'[w].reply = "error"
             /\ last'[w].reason = "not initialized"
             /\ UNCHANGED <<source, shared, fixed, gProcessor, pc, loc, scans, history>>]_vars

\* witness: a worker without a processor answered processFilters with error while the
\* other worker was in its scan loop
C7_Witness ==
    /\ gProcessor[1] = "null"
    /\ last[1].type = "processFilters"
    /\ last[1].reply = "error"
    /\ InLoop(2)

(***************************************************************************)
(* C8, C9.  Requests that cannot be compiled.                              *)
(***************************************************************************)
HasNullRule(expression) ==
    \E c \in 1..Len(expression) :
        \E k \in 1..Len(expression[c]) : RuleIsNull(expression[c][k])

\* a rule on a missing column, a description entry on a missing column, or a rule with
\* an unknown operation
BadRequest ==
    \/ ~ExpressionCompiles(ConfigRules(request))
    \/ ~WriterCompiles(request.resultDescription)
    \/ HasNullRule(ConfigRules(request))

\* C8 as stated: a processFilters with such a request is answered with error, never
\* with silence and never with success.
C8_Original ==
    \A w \in Workers :
        (BadRequest /\ gProcessor[w] # "null" /\ pc[w] = "idle"
            /\ last[w].type = "processFilters")
           => last[w].reply = "error"

\* C9 as stated: a processFilters request never fails at row time: no failure leaves
\* the handler once the worker is in its scan loop.
C9_Original ==
    [][\A w \in Workers : Scanning(w) => last'[w].reason # "uncaught"]_vars

(***************************************************************************)
(* C10.  Messages of an unknown type.                                      *)
(***************************************************************************)
UnrecognizedTaken(w) == last'[w] # last[w] /\ last'[w].type = "bogus"

\* C10: a message of an unknown type is answered with error and changes nothing: not
\* the worker's processor, not the cursor, not a table.
C10_Unrecognized ==
    [][\A w \in Workers :
          UnrecognizedTaken(w) =>
             /\ last'[w].reply = "error"
             /\ last'[w].reason = "unrecognized"
             /\ UNCHANGED <<source, shared, fixed, gProcessor, pc, loc, scans, history>>]_vars

\* witness: an initialized worker and one without a processor both answered an
\* unknown message with error
C10_Witness ==
    /\ gProcessor[1] = "A"
    /\ last[1].type = "bogus"
    /\ last[1].reply = "error"
    /\ gProcessor[2] = "null"
    /\ last[2].type = "bogus"
    /\ last[2].reply = "error"
    /\ resRowCount > 0

(***************************************************************************)
(* C11, C12.  What the compiled tester computes in DNF and in CNF mode.    *)
(***************************************************************************)
\* the tester has been called on row call.row
Evaluated(mode) == call.fn = "filterTester" /\ call.out # "none" /\ call.mode = mode

RuleTrue(rule, r) == RuleTester("A", rule, r) = "true"

\* every rule of the expression evaluates to a boolean on row r
TotalOn(expression, r) ==
    \A c \in 1..Len(expression) :
        \A k \in 1..Len(expression[c]) :
            RuleTester("A", expression[c][k], r) \in {"true", "false"}

\* at least one clause has all of its rules true on row r
AnyClauseAllTrue(expression, r) ==
    \E c \in 1..Len(expression) :
        \A k \in 1..Len(expression[c]) : RuleTrue(expression[c][k], r)

\* every clause has at least one rule true on row r
EveryClauseAnyTrue(expression, r) ==
    \A c \in 1..Len(expression) :
        \E k \in 1..Len(expression[c]) : RuleTrue(expression[c][k], r)

IndexOrders(n) == {f \in [1..n -> 1..n] : \A a, b \in 1..n : f[a] = f[b] => a = b}

Orders(seq) == {[k \in 1..Len(seq) |-> seq[f[k]]] : f \in IndexOrders(Len(seq))}

\* the expressions with the clauses of `expression` in any order and the rules of each
\* clause in any order
Reorderings(expression) ==
    {e \in [1..Len(expression) -> UNION {Orders(expression[c]) : c \in 1..Len(expression)}] :
        \E f \in IndexOrders(Len(expression)) :
            \A k \in 1..Len(expression) : e[k] \in Orders(expression[f[k]])}

DNFSemantics ==
    /\ call.out = "true" <=> AnyClauseAllTrue(call.expression, call.row)
    /\ \A e \in Reorderings(call.expression) :
          filterTester("A", e, "DNF", call.row) = call.out

CNFSemantics ==
    /\ call.out = "true" <=> EveryClauseAnyTrue(call.expression, call.row)
    /\ \A e \in Reorderings(call.expression) :
          filterTester("A", e, "CNF", call.row) = call.out

\* C11 as stated: for every non-empty expression compiled in DNF mode and every row, the
\* tester returns true if and only if at least one clause has all of its rules true on
\* the row (and false otherwise), in whatever order the clauses and rules are written.
C11_Original ==
    (Evaluated("DNF") /\ Len(call.expression) > 0) => DNFSemantics

\* the same, for the expressions whose rules all evaluate to a boolean on the row
DNFOfTotalRules ==
    (Evaluated("DNF") /\ Len(call.expression) > 0
        /\ TotalOn(call.expression, call.row))
       => (DNFSemantics /\ call.out \in {"true", "false"})

\* C12 as stated: for every non-empty expression compiled in CNF mode and every row, the
\* tester returns true if and only if every clause has at least one rule true on the row
\* (and false otherwise), in whatever order the clauses and rules are written.
C12_Original ==
    (Evaluated("CNF") /\ Len(call.expression) > 0) => CNFSemantics

\* the same, for the expressions whose rules all evaluate to a boolean on the row
CNFOfTotalRules ==
    (Evaluated("CNF") /\ Len(call.expression) > 0
        /\ TotalOn(call.expression, call.row))
       => (CNFSemantics /\ call.out \in {"true", "false"})

(***************************************************************************)
(* C13.  Scans without rules and with a single rule.                       *)
(***************************************************************************)
\* the source rows the scans have written to the result table
Selected == {r \in 0..(srcRowCount - 1) : written[r] >= 1}

SingleRule == Len(ConfigRules(request)) = 1 /\ Len(ConfigRules(request)[1]) = 1

TheRule == ConfigRules(request)[1][1]

\* C13: in DNF and in CNF mode, once the scan is over, an empty or absent expression
\* has selected every source row, a single rule that is true on all rows has selected
\* every row, and a single rule that is false on all rows has selected none.
C13_FilterIdentity ==
    /\ (AllSucceededOnce /\ Len(ConfigRules(request)) = 0)
          => (Selected = 0..(srcRowCount - 1) /\ resRowCount = srcRowCount)
    /\ (AllSucceededOnce /\ SingleRule
            /\ \A r \in 0..(srcRowCount - 1) : RuleTester("A", TheRule, r) = "true")
          => (Selected = 0..(srcRowCount - 1) /\ resRowCount = srcRowCount)
    /\ (SingleRule /\ \A r \in 0..(srcRowCount - 1) : RuleTester("A", TheRule, r) = "false")
          => (Selected = {} /\ resRowCount = 0)

\* witness: the scans of a full table are over for a request that carries no rules, in
\* CNF mode, with every row selected
C13_Witness ==
    /\ AllSucceededOnce
    /\ "rules" \notin DOMAIN request
    /\ request.mode = "CNF"
    /\ srcRowCount = MaxRows
    /\ Selected = 0..(srcRowCount - 1)

(***************************************************************************)
(* C14.  De Morgan duality of the two modes.                               *)
(***************************************************************************)
Negation(op) ==
    CASE op = "equal" -> "notEqual"
      [] op = "notEqual" -> "equal"
      [] op = "contains" -> "notContains"
      [] op = "notContains" -> "contains"
      [] op = "in" -> "notIn"
      [] op = "notIn" -> "in"
      [] op = "greaterThan" -> "lessThanOrEqual"
      [] op = "lessThanOrEqual" -> "greaterThan"
      [] op = "lessThan" -> "greaterThanOrEqual"
      [] op = "greaterThanOrEqual" -> "lessThan"
      [] OTHER -> op

\* the same clause structure, every rule replaced by its negation
Dual(expression) ==
    [c \in 1..Len(expression) |->
        [k \in 1..Len(expression[c]) |->
            [expression[c][k] EXCEPT !.operation = Negation(@)]]]

\* the negation of a tester's outcome; a TypeError stays a TypeError
Not(v) == CASE v = "true" -> "false" [] v = "false" -> "true" [] OTHER -> v

Ordering == {"greaterThan", "greaterThanOrEqual", "lessThan", "lessThanOrEqual"}

\* no ordering comparison of the expression has NaN as an operand
OrderingOnNumbers(expression) ==
    \A c \in 1..Len(expression) :
        \A k \in 1..Len(expression[c]) :
            LET rule == expression[c][k]
            IN  rule.operation \in Ordering =>
                  /\ ColumnType[rule.field] # "ByteString"
                  /\ ~parseFloat(rule.value).nan

DualOutcome == filterTester("A", Dual(call.expression), "CNF", call.row)

\* C14 as stated: for every expression and every row, the DNF tester returns the
\* negation of what the CNF tester of the De Morgan dual returns.
C14_Original ==
    Evaluated("DNF") =>
        /\ call.out \in {"true", "false"}
        /\ call.out = Not(DualOutcome)

\* C14 amended: for every non-empty expression whose ordering comparisons have no NaN
\* operand, and every row, either the DNF tester and the CNF tester of the dual both
\* fail with a TypeError, or the DNF tester returns the negation of what the CNF tester
\* of the dual returns.
C14_Duality ==
    (Evaluated("DNF") /\ Len(call.expression) > 0 /\ OrderingOnNumbers(call.expression))
       => call.out = Not(DualOutcome)

\* witness: a DNF tester of two clauses with three rules between them, one an ordering
\* comparison, returned true where the CNF tester of the dual returns false
C14_Witness ==
    /\ Evaluated("DNF")
    /\ Len(call.expression) = 2
    /\ RuleCount(call.expression, 2) = 3
    /\ OrderingOnNumbers(call.expression)
    /\ \E c \in 1..2 : \E k \in 1..Len(call.expression[c]) :
          call.expression[c][k].operation = "greaterThan"
    /\ call.out = "true"
    /\ DualOutcome = "false"

(***************************************************************************)
(* C15.  A result row holds the fields of one matching source row.         *)
(***************************************************************************)
\* a worker is between addRows and its last field writer on result slot s
BeingWritten(s) == \E w \in Workers : pc[w] = "write" /\ loc[w].resultRow = s

\* what description entry d asks for from source row r
DescribedValue(d, r) == IF d.as # "" THEN InitialRows[r][d.column] ELSE r

\* every field result slot s holds so far is the described field of source row r
FieldsFrom(s, r) ==
    \A col \in DOMAIN resData[s] :
        \E k \in 1..Len(request.resultDescription) :
            /\ request.resultDescription[k].as = col
            /\ resData[s][col] = DescribedValue(request.resultDescription[k], r)

\* C15: under any interleaving, the fields of every result row come from one single
\* matching source row r: the `as` columns hold the described source columns of row r
\* and the empty-named column holds r; every row the writer has finished holds all
\* its described fields, and no row mixes two source rows or holds a non-matching one.
C15_OneSourceRow ==
    LET matching == MatchingRows
    IN  /\ DOMAIN resData \subseteq 0..(resRowCount - 1)
        /\ \A s \in DOMAIN resData : \E r \in matching : FieldsFrom(s, r)
        /\ \A s \in 0..(resRowCount - 1) :
              BeingWritten(s) \/ \E r \in matching : RowWritten(s, r)

\* witness: one worker has finished a result row while the other has written the first
\* field of another, from a different source row
C15_Witness ==
    /\ resRowCount >= 2
    /\ \E s1, s2 \in DOMAIN resData :
          /\ s1 # s2
          /\ ~BeingWritten(s1)
          /\ BeingWritten(s2)
          /\ DOMAIN resData[s2] = {"id"}
          /\ resData[s1]["id"] # resData[s2]["id"]
          /\ \E r \in MatchingRows : RowWritten(s1, r)

(***************************************************************************)
(* C16.  The result table stays within its region.                         *)
(***************************************************************************)
\* the rows counted and the slots written or about to be written end inside the region
WithinRegion ==
    /\ resRowCount * ResultRowLength + ResultDataLength <= resSize
    /\ \A s \in DOMAIN resData : RegionSize(s + 1) <= resSize
    /\ \A w \in Workers : pc[w] = "write" => RegionSize(loc[w].resultRow + 1) <= resSize

\* C16 as stated: at every reachable state of a scan, rowCount * rowLength + dataLength
\* <= region.size for the result table, and no writer claims or writes a slot beyond
\* the end of the region, whatever the number of matching rows.
C16_Original == WithinRegion

\* C16 amended: the same, provided the region of the (initially empty) result table
\* has room for every matching row, dataLength + matching * rowLength <= region.size,
\* and no fetch-add returns a wrapped cursor.
C16_WithinRegion ==
    (NoWrap /\ RegionSize(Cardinality(MatchingRows)) <= resSize) => WithinRegion

\* witness: the scans are over and have filled the region to its last row
C16_Witness ==
    /\ AllSucceededOnce
    /\ NoWrap
    /\ Cardinality(MatchingRows) >= 2
    /\ resSize = RegionSize(Cardinality(MatchingRows))
    /\ resRowCount * ResultRowLength + ResultDataLength = resSize
    /\ (resRowCount - 1) \in DOMAIN resData

(***************************************************************************)
(* C17.  What a scan writes.                                               *)
(***************************************************************************)
\* the result slots whose content changes in this step
SlotsChanged ==
    {s \in DOMAIN resData' : s \notin DOMAIN resData \/ resData'[s] # resData[s]}

\* C17: with a result table other than the source table, no step of a worker changes
\* the source table's rowCount or a source row; of the shared memory a step writes
\* only the cursor, the result rowCount and, in a result row, the slot addRows
\* returned to the worker that takes the step.
C17_SourceUnchanged ==
    [][request.resultTable \notin Tables =>
          /\ srcRowCount' = srcRowCount
          /\ srcData' = srcData
          /\ resSize' = resSize
          /\ freed' = freed
          /\ DOMAIN resData \subseteq DOMAIN resData'
          /\ \A s \in SlotsChanged :
                \E w \in Workers :
                    /\ pc[w] = "write"
                    /\ loc[w].resultRow = s
                    /\ \E k \in 1..Len(slotLog) : slotLog[k] = s]_vars

\* witness: the scans of a full table are over, rows were written to the result
\* table, and the source table is as the coordinator built it
C17_Witness ==
    /\ AllSucceededOnce
    /\ request.resultTable = "R"
    /\ srcRowCount = MaxRows
    /\ srcData = InitialRows
    /\ resRowCount >= 2
    /\ Len(slotLog) = resRowCount
    /\ cursor # U32(0, 0)

(***************************************************************************)
(* C18.  fetchMemory invalidates the processor.                            *)
(***************************************************************************)
\* fetchMemory() is called on the processor of worker w in this step
FetchMemoryTaken(w) ==
    /\ call' # call
    /\ call'.fn = "fetchMemory"
    /\ call'.worker = w

\* C18: fetchMemory() returns the buffer of the source table and leaves the processor
\* without table and row cursor, for good; a later process() on it fails at once: the
\* worker enters no scan loop, and the cursor, the result table and the counts of rows
\* claimed, tested and written are as before.
C18_FetchMemory ==
    /\ [](\A w \in Workers : gProcessor[w] = NoTable => ~Scanning(w))
    /\ [][\A w \in Workers :
            /\ (FetchMemoryTaken(w) /\ gProcessor[w] # NoTable) =>
                  /\ call'.out = Buffer("A")
                  /\ gProcessor'[w] = NoTable
            /\ gProcessor[w] = NoTable =>
                  /\ gProcessor'[w] = NoTable
                  /\ ProcessFiltersTaken(w) =>
                        /\ last'[w].reply = "none"
                        /\ last'[w].reason = "uncaught"
                        /\ pc'[w] = "idle"
                        /\ UNCHANGED <<source, shared, loc, scans, history>>]_vars

\* witness: a processor was invalidated after a scan that wrote rows, and a later
\* processFilters on it failed while the other worker was in its scan loop
C18_Witness ==
    /\ gProcessor[1] = NoTable
    /\ call.fn = "fetchMemory"
    /\ call.out = Buffer("A")
    /\ scans[1] = 1
    /\ last[1].type = "processFilters"
    /\ last[1].reason = "uncaught"
    /\ InLoop(2)

(***************************************************************************)
(* C19.  Workers release no region.                                        *)
(***************************************************************************)
\* C19: over any sequence of initialize, processFilters and fetchMemory, no region is
\* freed or destroyed: not the source table's, not the result table's, not the
\* indices region; fetchMemory only hands the buffer back.
C19_NoRelease == freed = {}

\* witness: both workers have scanned and every processor has given its buffer back
C19_Witness ==
    /\ \A w \in Workers : gProcessor[w] = NoTable /\ scans[w] = 1 /\ Ready(w)
    /\ call.fn = "fetchMemory"
    /\ call.out = Buffer("A")
    /\ resRowCount > 0
    /\ freed = {}

(***************************************************************************)
(* C20.  Bounds check of getRow and getBinaryRow.                          *)
(***************************************************************************)
GetRowCalled == call.fn \in {"getRow", "getBinaryRow"}

\* C20 as stated: in a debug build getRow(i) and getBinaryRow(i) throw exactly when
\* i >= rowCount and return a row positioned at i for every i < rowCount; in a release
\* build they never throw and the row is positioned at i for every i.
C20_Original ==
    GetRowCalled =>
        /\ call.debug =>
              /\ call.threw <=> call.index >= srcRowCount
              /\ call.index < srcRowCount => call.rowIndex = call.index
        /\ ~call.debug => (~call.threw /\ call.rowIndex = call.index)

\* the part about the release build
GetRowOfReleaseBuild ==
    (GetRowCalled /\ ~call.debug) => (~call.threw /\ call.rowIndex = call.index)

(***************************************************************************)
(* C21.  forEach and the iterator.                                         *)
(***************************************************************************)
\* the indices of a sequence of visits
Indices(visits) == [k \in 1..Len(visits) |-> visits[k].index]

\* the visits are n visits of one Row object, positioned at 0, 1, ..., n - 1 in turn
AscendingVisits(visits, n) ==
    /\ Len(visits) = n
    /\ \A k \in 1..Len(visits) : visits[k].index = k - 1 /\ visits[k].row = visits[1].row

\* forEach returned: it called back rowCount times, on the indices 0..rowCount-1
ForEachVisitsEveryRow == call.each.returned => AscendingVisits(call.each.visits, call.each.n)

\* the iterator has yielded rows 0..i-1 of the n rows read when it was created, and
\* reports done only after row n - 1
IteratorYieldsEveryRow ==
    call.it.made =>
        /\ call.it.i <= call.it.n
        /\ AscendingVisits(call.it.yielded, call.it.i)
        /\ call.it.done => call.it.i = call.it.n

\* forEach and an exhausted iterator over the same number of rows visited the same
\* indices
SameIndices ==
    (call.each.returned /\ call.it.made /\ call.it.done /\ call.each.n = call.it.n)
        => Indices(call.each.visits) = Indices(call.it.yielded)

\* C21 as stated: for every table with rowCount >= 0, forEach(f) invokes f exactly
\* rowCount times, once for each index 0..rowCount-1 in ascending order, each time
\* with the same single Row positioned at that index; it visits the same index
\* sequence as the table's iterator, which yields rows 0..n-1 for the rowCount n read
\* at its creation and then reports done.
C21_Original == ForEachVisitsEveryRow /\ IteratorYieldsEveryRow /\ SameIndices

\* the part about tables that have rows
ForEachOfNonEmptyTable ==
    (call.each.returned /\ call.each.n >= 1)
        => /\ AscendingVisits(call.each.visits, call.each.n)
           /\ SameIndices

(***************************************************************************)
(* C22.  Order of the rows one worker tests.                               *)
(***************************************************************************)
\* worker w takes this step
StepOf(w) == pc'[w] # pc[w] \/ loc'[w] # loc[w]

\* this step runs the tester on row r, once, and on no other row
TestsOnly(r) ==
    \A q \in DOMAIN tested : tested'[q] = tested[q] + (IF q = r THEN 1 ELSE 0)

\* min(start + batchSize, rowCount)
ClaimEnd(start, batchSize, rowCount) ==
    IF batchSize[1] > 0 \/ start + batchSize[2] > rowCount THEN rowCount
    ELSE start + batchSize[2]

\* C22: within one worker and one scan the row indices tested are strictly increasing.
\* A worker tests the current row r of its claim [i, n), n = min(i + batchSize,
\* rowCount); its next test in the batch is on r + 1; a new claim starts at its own
\* first index and, absent u32 wrap of the cursor, at or above the end of the worker's
\* previous claim of the scan; and a matching row is added and written in full to the
\* result table before the worker tests another row.
C22_AscendingTests ==
    [][\A w \in Workers :
          StepOf(w) =>
              /\ IF pc[w] = "test"
                 THEN /\ TestsOnly(loc[w].r)
                      /\ loc[w].i <= loc[w].r
                      /\ loc[w].r < loc[w].n
                      /\ loc[w].n = ClaimEnd(loc[w].i, request.rowBatchSize, srcRowCount)
                      /\ Matches(loc[w].r) => pc'[w] = "add"
                 ELSE tested' = tested
              /\ (InLoop(w) /\ pc'[w] = "test") =>
                    /\ loc'[w].r = loc[w].r + 1
                    /\ loc'[w].i = loc[w].i
                    /\ loc'[w].n = loc[w].n
              /\ (pc[w] = "fetch" /\ pc'[w] = "test") =>
                    /\ loc'[w].r = loc'[w].i
                    /\ loc[w].r = loc[w].n
                    /\ NoWrap => loc'[w].i >= loc[w].n
              /\ pc[w] = "add" => written'[loc[w].r] = written[loc[w].r] + 1
              /\ (pc[w] = "write" /\ pc'[w] # "write") =>
                    \E s \in {loc[w].resultRow} : \E r \in {loc[w].r} :
                        RowWritten(s, r)'
              /\ (pc[w] \in {"add", "write"} /\ pc'[w] = pc[w]) => pc[w] = "write"
              /\ pc'[w] = "test" =>
                    pc[w] \in {"fetch", "test", "write"}]_vars

\* witness: a worker scanning alone in batches of two is on its second claim, having
\* tested both rows of its first and written the one that matched
C22_Witness ==
    \E w \in Workers :
        /\ scans[w] = 1
        /\ \A v \in Workers \ {w} : scans[v] = 0
        /\ request.rowBatchSize = U32(0, 2)
        /\ pc[w] = "test"
        /\ loc[w].i = 2
        /\ loc[w].r = 2
        /\ tested[0] = 1
        /\ tested[1] = 1
        /\ written[0] + written[1] = 1
        /\ \E s \in DOMAIN resData : \E r \in 0..1 : RowWritten(s, r)

(***************************************************************************)
(* C23.  destroy() is terminal.                                            *)
(***************************************************************************)
\* the operations of the claim
TerminalOperations == {"destroy", "rowCount", "dataOffset", "addRows", "forEach"}

\* free() ran at most once, exactly when the instance dropped both references, and
\* the region is then released
FreedOnce ==
    /\ call.frees <= 1
    /\ call.frees = 1 <=> Destroyed(call)
    /\ call.frees = 1 <=> "A" \in freed
    /\ call.mMemory = Undefined <=> call.mHeader = Undefined
    /\ (call.fn = "destroy" /\ call.out = "ok") => call.frees = 1

\* C23: destroy() calls free() on the region exactly once and drops the memory and
\* header references; over any sequence of operations on the instance free() runs at
\* most once, a second destroy() failing without freeing again; after destroy(),
\* rowCount, dataOffset, addRows and forEach fail: none returns a value, calls back,
\* or changes the released region.
C23_DestroyTerminal ==
    /\ []FreedOnce
    /\ [][/\ (~Destroyed(call) /\ call'.fn = "destroy") =>
                /\ call'.out = "ok"
                /\ Destroyed(call')
                /\ call'.frees = call.frees + 1
                /\ freed' = freed \cup {"A"}
          /\ Destroyed(call) =>
                /\ Destroyed(call')
                /\ call'.frees = call.frees
                /\ freed' = freed
                /\ srcRowCount' = srcRowCount
                /\ srcData' = srcData
                /\ call'.fn \in TerminalOperations => call'.out = TypeError
                /\ call'.fn = "forEach" =>
                      /\ ~call'.each.returned
                      /\ call'.each.visits = <<>>]_vars

\* witness: a table with rows was destroyed and destroy() was called on it again
C23_Witness ==
    /\ srcRowCount >= 1
    /\ Destroyed(call)
    /\ call.fn = "destroy"
    /\ call.out = TypeError
    /\ call.frees = 1
    /\ "A" \in freed

(***************************************************************************)
(* C24.  in and notIn.                                                     *)
(***************************************************************************)
InCalled == call.fn = "in" /\ call.isIn # "none"

\* the field of row r equals value v, as the `equal` operation compares them
FieldEquals(field, r, v) == RuleTester("A", Rule(field, "equal", v), r) = "true"

\* C24: for every row and every value list, the empty list and lists with values of
\* no row included, the `in` rule is true if and only if the row's field equals at
\* least one listed value, and false otherwise; the `notIn` rule on the same field and
\* list is the negation of the `in` rule; and neither outcome depends on the order of
\* the list.
C24_InNotIn ==
    InCalled =>
        /\ call.isIn \in {"true", "false"}
        /\ call.isIn = "true" <=>
              \E k \in 1..Len(call.value) : FieldEquals(call.field, call.row, call.value[k])
        /\ call.notIn = Bool(call.isIn # "true")
        /\ \A e \in Orders(call.value) :
              /\ RuleTester("A", Rule(call.field, "in", e), call.row) = call.isIn
              /\ RuleTester("A", Rule(call.field, "notIn", e), call.row) = call.notIn

\* witness: a list whose first value is of no row and whose last value the row's field
\* equals
C24_Witness ==
    /\ InCalled
    /\ Len(call.value) >= 2
    /\ call.isIn = "true"
    /\ call.notIn = "false"
    /\ \A r \in 0..(srcRowCount - 1) : ~FieldEquals(call.field, r, call.value[1])
    /\ FieldEquals(call.field, call.row, call.value[Len(call.value)])

(***************************************************************************)
(* C25.  The shared cursor.                                                *)
(***************************************************************************)
\* k * batchSize mod 2^32, by k additions on the u32 word
RECURSIVE TimesU32(_, _)
TimesU32(batchSize, k) ==
    IF k = 0 THEN U32(0, 0) ELSE U32Add(TimesU32(batchSize, k - 1), batchSize)

\* some workers have each completed one scan and no worker has entered another
RoundOver ==
    /\ TotalScans >= 1
    /\ \A w \in Workers : scans[w] <= 1 /\ (scans[w] = 1 => SucceededOnce(w))

\* the cursor after the round: batchSize * (ceil(rowCount / batchSize) + N)
CursorAfterRound ==
    cursor = TimesU32(request.rowBatchSize,
                      Batches(request.rowBatchSize, srcRowCount) + TotalScans)

\* the tester returns a boolean on every row, so that every scan entered completes
NoRowThrows ==
    \A r \in 0..(srcRowCount - 1) :
        filterTester("A", ConfigRules(request), request.mode, r) \in {"true", "false"}

\* a worker in a scan after its first, which it completed, neither tests nor writes
\* a row
FurtherScanIdle ==
    \A w \in Workers : (scans[w] >= 2 /\ NoRowThrows) => ~InLoop(w)

\* a step changes the cursor only as the fetch-add of a worker, by batchSize mod 2^32
OnlyFetchAdds ==
    cursor' # cursor =>
        /\ cursor' = U32Add(cursor, request.rowBatchSize)
        /\ \E w \in Workers : pc[w] = "fetch" /\ StepOf(w)

\* C25 as stated: the cursor is changed only by fetch-adds of batchSize; after N
\* workers have each completed one scan from cursor 0 it equals batchSize *
\* (ceil(rowCount / batchSize) + N), so that a further processFilters without a reset
\* of the cursor tests no row and writes nothing.
C25_Original ==
    /\ RoundOver => CursorAfterRound
    /\ FurtherScanIdle

\* C25 amended: the cursor is changed only by fetch-adds of batchSize mod 2^32,
\* whatever the interleaving; provided no fetch-add returns a wrapped cursor, that is
\* batchSize * (ceil(rowCount / batchSize) + S - 1) < 2^32 for the S scans entered, the
\* cursor after N workers have each completed one scan is batchSize * (ceil(rowCount
\* / batchSize) + N) mod 2^32, and a further scan tests no row and writes nothing.
C25_Cursor ==
    /\ [](NoWrap => ((RoundOver => CursorAfterRound)
                      /\ FurtherScanIdle))
    /\ [][OnlyFetchAdds]_vars

\* witness: a worker has completed a second scan of a full table over the same
\* cursor, without wrap; every row was tested once, in the first scan
C25_Witness ==
    \E w \in Workers :
        /\ scans[w] = 2
        /\ pc[w] = "idle"
        /\ last[w].reply = "success"
        /\ NoWrap
        /\ srcRowCount = MaxRows
        /\ request.rowBatchSize = U32(0, 2)
        /\ \A r \in 0..(srcRowCount - 1) : tested[r] = 1
        /\ resRowCount >= 1
        /\ cursor = TimesU32(request.rowBatchSize,
                             Batches(request.rowBatchSize, srcRowCount) + 2)

=============================================================================
